---- MODULE Spec2Model ----
(***************************************************************************)
(* He4: a fixed-capacity, open-addressed hash table with linear probing,   *)
(* lazy deletion and a least-recently-used "touch index".                  *)
(*                                                                         *)
(* The model follows the implementation that contains insert_cell,         *)
(* he4_find and he4_trim (src/unnamed/part_000).  A table is the record    *)
(* of the fields capacity, free, max_touch and maps; one action stands for *)
(* one call of a public function on the table the caller currently holds.  *)
(*                                                                         *)
(* Keys and entries are pointers: 0 is NULL, a positive number is an       *)
(* object of the caller.  Content(k) is the byte string a key pointer      *)
(* refers to, KeyLen(k) its length and Hash(k) what table->hash returns    *)
(* for it.  Calls the C standard leaves undefined (memcmp or the hash      *)
(* function applied to a NULL key, a read past the end of maps) are        *)
(* modelled by a choice among the outcomes a build can show.               *)
(***************************************************************************)
EXTENDS Integers, Sequences, FiniteSets, TLC

\* ------------------------------------------------------------------------
\* Bounds of the model.
\* ------------------------------------------------------------------------

\* Largest capacity a rehash may ask for.
MaxCapacity == 4

\* No operation that issues a touch index is started beyond this max_touch.
MaxTouch == 3

\* Number of rehash and trim calls in one run.
MaxReplace == 1

\* Number of entry objects the caller hands in.
NumEntries == 2

\* Modulus of the modelled size_t (SIZE_MAX = WordMod - 1).
WordMod == 64

\* Largest capacity the caller asks he4_new for at the start.
MaxInitCapacity == 3

\* ------------------------------------------------------------------------
\* Program constants and the caller's collaborators.
\* ------------------------------------------------------------------------

\* Smallest capacity he4_new accepts.  The header sets it to 64 unless the
\* build defines it; the model is the build with -DHE4_MINIMUM_SIZE=2.
HE4_MINIMUM_SIZE == 2

NULL == 0

SIZE_MAX == WordMod - 1

\* Key objects of the caller.  Keys 1 and 2 are two distinct objects with
\* the same bytes.
Keys == 1..4

Entries == 1..NumEntries

\* The bytes a key pointer refers to.
Content(k) ==
    CASE k = 1 -> "a"
      [] k = 2 -> "a"
      [] k = 3 -> "b"
      [] OTHER -> "c"

\* The length in bytes the caller passes with a key.
KeyLen(k) == IF Content(k) = "c" THEN 2 ELSE 1

\* table->hash(key, klen) for a non-NULL key: a function of the bytes.
Hash(k) ==
    CASE Content(k) = "a" -> 0
      [] Content(k) = "b" -> 3
      [] OTHER            -> 4

\* What table->hash may do when it is handed a NULL key (he4_rehash and
\* he4_trim_and_rehash do so for every slot that is not occupied): return
\* some value, or, when klen > 0 makes it read the key, fault (-1).
NullHashes == {-1, 0, 1}

\* Outcomes of memcmp(key, NULL, n) with n > 0.
UBCompare == {"eq", "ne", "fault"}

\* The outcomes to choose from in a call F: all of them when the call
\* reaches the undefined comparison, a single one when it does not.
Reached(F(_)) == IF F("fault").pc = "fault" THEN UBCompare ELSE {"ne"}

\* ------------------------------------------------------------------------
\* Slots.
\* ------------------------------------------------------------------------

blank_cell == [key |-> NULL, klen |-> 0, entry |-> NULL, hash |-> 0, touch |-> 0]

is_empty(table, index) == table.maps[index].klen = 0

is_deleted(table, index) ==
    table.maps[index].klen > 0 /\ table.maps[index].key = NULL

is_open(table, index) == table.maps[index].key = NULL

\* Occupied: klen > 0 and key present (file comment, "a non-empty cell").
is_occupied(table, index) ==
    table.maps[index].klen > 0 /\ table.maps[index].key # NULL

\* The destructor calls of one operation: the keys and the entries handed
\* to table->delete_key and table->delete_entry, in call order.
NoCalls == [dk |-> << >>, de |-> << >>]

\* An empty_cell that clears the key and its length and leaves the other
\* fields of the slot as they were.
empty_cell_keep(table, calls, index, free_key, free_entry) ==
    LET c == table.maps[index]
        dk1 == IF free_key /\ c.key # NULL THEN Append(calls.dk, c.key) ELSE calls.dk
        de1 == IF free_entry /\ c.entry # NULL THEN Append(calls.de, c.entry) ELSE calls.de
    IN [table |-> [table EXCEPT !.maps[index].key = NULL, !.maps[index].klen = 0],
        calls |-> [dk |-> dk1, de |-> de1]]

\* empty_cell: destroy on request what is present, then blank the slot.
empty_cell(table, calls, index, free_key, free_entry) ==
    LET c == table.maps[index]
        dk1 == IF free_key /\ c.key # NULL THEN Append(calls.dk, c.key) ELSE calls.dk
        de1 == IF free_entry /\ c.entry # NULL THEN Append(calls.de, c.entry) ELSE calls.de
    IN [table |-> [table EXCEPT !.maps[index] = blank_cell],
        calls |-> [dk |-> dk1, de |-> de1]]

\* move_cell: free an occupied destination, copy, blank the source.
move_cell(table, calls, from, to) ==
    LET r  == IF ~is_open(table, to)
              THEN empty_cell(table, calls, to, TRUE, TRUE)
              ELSE [table |-> table, calls |-> calls]
        t1 == [r.table EXCEPT !.maps[to] = r.table.maps[from]]
        t2 == [t1 EXCEPT !.maps[from] = blank_cell]
    IN [table |-> t2, calls |-> r.calls]

\* he4_compare: 1 when the lengths differ, otherwise memcmp over klen1
\* bytes.  memcmp with a NULL argument and a positive length is undefined:
\* ub is the outcome the build shows.
he4_compare(key1, klen1, key2, klen2, ub) ==
    IF klen1 # klen2 THEN "ne"
    ELSE IF klen1 = 0 THEN "eq"
    ELSE IF key1 = NULL \/ key2 = NULL THEN ub
    ELSE IF Content(key1) = Content(key2) THEN "eq" ELSE "ne"

\* ------------------------------------------------------------------------
\* Construction.
\* ------------------------------------------------------------------------

\* he4_new: capacity entries, free = entries, max_touch = 0, zeroed maps.
he4_new(entries) ==
    [capacity |-> entries, free |-> entries, max_touch |-> 0,
     maps |-> [i \in 0..(entries - 1) |-> blank_cell]]

he4_size(table) == (table.capacity - table.free) % WordMod

\* ------------------------------------------------------------------------
\* Insertion.
\* ------------------------------------------------------------------------

\* What an operation hands back: the table after it, the destructor calls
\* it made, its return value, how it ended ("ready": it returned, "hung":
\* its loop never ends, "fault": undefined behaviour stopped the program)
\* and the number of iterations of its probe loop.
Outcome(table, calls, ret, pc, probes) ==
    [table |-> table, calls |-> calls, ret |-> ret, pc |-> pc, probes |-> probes]

\* The do-while loop of insert_cell from slot index on; n iterations are
\* done.  It ends at an open slot, at a matching slot, or after the full
\* cycle, with the least recently used slot seen.
RECURSIVE insert_probe(_, _, _, _, _, _, _, _, _, _)
insert_probe(table, key, klen, hash, ub, start, index, lru, lru_index, n) ==
    LET c == table.maps[index]
        cmp == IF c.hash = hash THEN he4_compare(c.key, c.klen, key, klen, ub) ELSE "ne"
        lru1 == IF c.touch < lru THEN c.touch ELSE lru
        lru_index1 == IF c.touch < lru THEN index ELSE lru_index
        next == (index + 1) % table.capacity
    IN IF is_open(table, index)
       THEN [kind |-> "open", index |-> index, lru_index |-> lru_index, n |-> n + 1]
       ELSE IF cmp = "fault"
       THEN [kind |-> "fault", index |-> index, lru_index |-> lru_index, n |-> n + 1]
       ELSE IF cmp = "eq"
       THEN [kind |-> "match", index |-> index, lru_index |-> lru_index, n |-> n + 1]
       ELSE IF start # next
       THEN insert_probe(table, key, klen, hash, ub, start, next, lru1, lru_index1, n + 1)
       ELSE [kind |-> "full", index |-> next, lru_index |-> lru_index1, n |-> n + 1]

\* A write at an open slot that leaves free as it is.
open_write_nofree(table, index, key, klen, entry, touch_index, hash) ==
    [table EXCEPT
       !.maps[index] = [key |-> key, klen |-> klen, entry |-> entry,
                        hash |-> hash, touch |-> touch_index]]

\* The write at an open slot: the five fields, then --free.
open_write(table, index, key, klen, entry, touch_index, hash) ==
    [table EXCEPT
       !.maps[index] = [key |-> key, klen |-> klen, entry |-> entry,
                        hash |-> hash, touch |-> touch_index],
       !.free = (table.free - 1) % WordMod]

\* A matching slot that is only touched: the old entry stays.
match_replace_keep(table, index, entry, touch_index) ==
    [table EXCEPT !.maps[index].touch = touch_index]

\* The update of a matching slot: the entry and the touch index; the key
\* object of the slot stays.
match_replace(table, index, entry, touch_index) ==
    [table EXCEPT !.maps[index].entry = entry, !.maps[index].touch = touch_index]

\* The overwrite at the slot the probe loop ended at, which is start.
victim_slot_start(p) == p.index

\* The slot a forced insert overwrites after a full cycle (index =
\* lru_index): p is the result of the probe loop.
victim_slot(p) == p.lru_index

\* insert_cell: write at the first open slot, or replace the entry of the
\* matching key, or (overwrite) destroy and overwrite the least recently
\* used slot; hash is table->hash(key, klen).
insert_cell(table, calls, key, klen, entry, overwrite, touch_index, hash, ub) ==
    LET start == hash % table.capacity
        p == insert_probe(table, key, klen, hash, ub, start, start, SIZE_MAX, start, 0)
        i == p.index
        v == victim_slot(p)
    IN CASE p.kind = "open" ->
              Outcome(open_write(table, i, key, klen, entry, touch_index, hash),
                      calls, FALSE, "ready", p.n)
         [] p.kind = "match" ->
              Outcome(match_replace(table, i, entry, touch_index),
                      [calls EXCEPT !.de = Append(calls.de, table.maps[i].entry)],
                      FALSE, "ready", p.n)
         [] p.kind = "fault" ->
              Outcome(table, calls, TRUE, "fault", p.n)
         [] OTHER ->
              IF ~overwrite
              THEN Outcome(table, calls, TRUE, "ready", p.n)
              ELSE Outcome([table EXCEPT
                              !.maps[v] = [key |-> key, klen |-> klen, entry |-> entry,
                                           hash |-> hash, touch |-> touch_index]],
                           [dk |-> Append(calls.dk, table.maps[v].key),
                            de |-> Append(calls.de, table.maps[v].entry)],
                           TRUE, "ready", p.n)

\* A plain insert that bumps max_touch whatever insert_cell returns.
he4_insert_bump(table, key, klen, entry, ub) ==
    IF key = NULL \/ klen = 0 \/ entry = NULL
    THEN Outcome(table, NoCalls, TRUE, "ready", 0)
    ELSE LET r == insert_cell(table, NoCalls, key, klen, entry, FALSE,
                              (table.max_touch + 1) % WordMod, Hash(key), ub)
         IN [r EXCEPT !.table.max_touch = (r.table.max_touch + 1) % WordMod]

\* he4_insert: argument checks, then insert_cell without overwrite and
\* with touch index max_touch + 1; max_touch is bumped on success only.
he4_insert(table, key, klen, entry, ub) ==
    IF key = NULL \/ klen = 0 \/ entry = NULL
    THEN Outcome(table, NoCalls, TRUE, "ready", 0)
    ELSE LET r == insert_cell(table, NoCalls, key, klen, entry, FALSE,
                              (table.max_touch + 1) % WordMod, Hash(key), ub)
         IN IF r.ret
            THEN r
            ELSE [r EXCEPT !.table.max_touch = (r.table.max_touch + 1) % WordMod]

\* A forced insert that bumps max_touch before it checks its arguments.
he4_force_insert_early(table, key, klen, entry, ub) ==
    LET t1 == [table EXCEPT !.max_touch = (table.max_touch + 1) % WordMod]
    IN IF key = NULL \/ klen = 0 \/ entry = NULL
       THEN Outcome(t1, NoCalls, TRUE, "ready", 0)
       ELSE insert_cell(t1, NoCalls, key, klen, entry, TRUE, t1.max_touch, Hash(key), ub)

\* A forced insert that reports false whenever it got past the argument
\* checks.
he4_force_insert_false(table, key, klen, entry, ub) ==
    IF key = NULL \/ klen = 0 \/ entry = NULL
    THEN Outcome(table, NoCalls, TRUE, "ready", 0)
    ELSE LET t1 == [table EXCEPT !.max_touch = (table.max_touch + 1) % WordMod]
             r == insert_cell(t1, NoCalls, key, klen, entry, TRUE, t1.max_touch, Hash(key), ub)
         IN [r EXCEPT !.ret = FALSE]

\* A forced insert that calls insert_cell without the overwrite flag.
he4_force_insert_plain(table, key, klen, entry, ub) ==
    IF key = NULL \/ klen = 0 \/ entry = NULL
    THEN Outcome(table, NoCalls, TRUE, "ready", 0)
    ELSE LET t1 == [table EXCEPT !.max_touch = (table.max_touch + 1) % WordMod]
         IN insert_cell(t1, NoCalls, key, klen, entry, FALSE, t1.max_touch, Hash(key), ub)

\* he4_force_insert: argument checks, bump max_touch, then insert_cell
\* with overwrite; the result of insert_cell is the return value.
he4_force_insert(table, key, klen, entry, ub) ==
    IF key = NULL \/ klen = 0 \/ entry = NULL
    THEN Outcome(table, NoCalls, TRUE, "ready", 0)
    ELSE LET t1 == [table EXCEPT !.max_touch = (table.max_touch + 1) % WordMod]
         IN insert_cell(t1, NoCalls, key, klen, entry, TRUE, t1.max_touch, Hash(key), ub)

\* ------------------------------------------------------------------------
\* Removal.
\* ------------------------------------------------------------------------

\* The do-while loop of he4_remove and he4_discard at slot index, n
\* iterations done.  An empty slot ends the search.  At a deleted slot the
\* continue statement goes to the loop condition (start != index) with
\* index unchanged: the loop ends when index is start and otherwise runs
\* the same iteration again.  The table does not change while the loop
\* runs, so an iteration beyond capacity repeats an earlier one for ever.
RECURSIVE remove_probe(_, _, _, _, _, _, _)
remove_probe(table, key, klen, hash, start, index, n) ==
    LET c == table.maps[index]
        next == (index + 1) % table.capacity
    IN IF n >= table.capacity
       THEN [kind |-> "hung", index |-> index, n |-> n]
       ELSE IF is_empty(table, index)
       THEN [kind |-> "absent", index |-> index, n |-> n + 1]
       ELSE IF is_deleted(table, index)
       THEN IF start # index
            THEN remove_probe(table, key, klen, hash, start, index, n + 1)
            ELSE [kind |-> "absent", index |-> index, n |-> n + 1]
       ELSE IF c.hash = hash /\ he4_compare(key, klen, c.key, c.klen, "ne") = "eq"
       THEN [kind |-> "match", index |-> index, n |-> n + 1]
       ELSE IF start # next
       THEN remove_probe(table, key, klen, hash, start, next, n + 1)
       ELSE [kind |-> "absent", index |-> next, n |-> n + 1]

\* A tail of he4_remove / he4_discard that leaves the slot as empty_cell
\* left it, empty.
delete_found_empty(table, index, free_entry) ==
    LET r == empty_cell(table, NoCalls, index, TRUE, free_entry)
    IN [table |-> [r.table EXCEPT !.free = (r.table.free + 1) % WordMod],
        calls |-> r.calls]

\* The tail of he4_remove / he4_discard on a match: empty_cell, klen = 1,
\* ++free.
delete_found(table, index, free_entry) ==
    LET r == empty_cell(table, NoCalls, index, TRUE, free_entry)
    IN [table |-> [r.table EXCEPT !.maps[index].klen = 1,
                                  !.free = (r.table.free + 1) % WordMod],
        calls |-> r.calls]

\* he4_remove: the entry of the key, which the caller then owns, or NULL.
he4_remove(table, key, klen) ==
    IF key = NULL \/ klen = 0
    THEN Outcome(table, NoCalls, NULL, "ready", 0)
    ELSE LET start == Hash(key) % table.capacity
             p == remove_probe(table, key, klen, Hash(key), start, start, 0)
             d == delete_found(table, p.index, FALSE)
         IN CASE p.kind = "match" ->
                   Outcome(d.table, d.calls, table.maps[p.index].entry, "ready", p.n)
              [] p.kind = "hung" -> Outcome(table, NoCalls, NULL, "hung", p.n)
              [] OTHER -> Outcome(table, NoCalls, NULL, "ready", p.n)

\* he4_discard: false when the key was found and destroyed with its entry.
he4_discard(table, key, klen) ==
    IF key = NULL \/ klen = 0
    THEN Outcome(table, NoCalls, TRUE, "ready", 0)
    ELSE LET start == Hash(key) % table.capacity
             p == remove_probe(table, key, klen, Hash(key), start, start, 0)
             d == delete_found(table, p.index, TRUE)
         IN CASE p.kind = "match" -> Outcome(d.table, d.calls, FALSE, "ready", p.n)
              [] p.kind = "hung" -> Outcome(table, NoCalls, TRUE, "hung", p.n)
              [] OTHER -> Outcome(table, NoCalls, TRUE, "ready", p.n)

\* ------------------------------------------------------------------------
\* Lookup.
\* ------------------------------------------------------------------------

\* The do-while loop of he4_get and he4_find at slot index, n iterations
\* done; lazy and lazy_index hold the first deleted slot seen.  The slot is
\* compared with the key whatever its state, so a deleted slot (hash 0,
\* key NULL, klen 1) reaches he4_compare when the key hashes to 0.
RECURSIVE get_probe(_, _, _, _, _, _, _, _, _, _)
get_probe(table, key, klen, hash, ub, start, index, lazy, lazy_index, n) ==
    LET c == table.maps[index]
        lazy1 == lazy \/ is_deleted(table, index)
        lazy_index1 == IF ~lazy /\ is_deleted(table, index) THEN index ELSE lazy_index
        cmp == IF c.hash = hash THEN he4_compare(key, klen, c.key, c.klen, ub) ELSE "ne"
        next == (index + 1) % table.capacity
        here == [kind |-> "absent", index |-> index, lazy |-> lazy1,
                 lazy_index |-> lazy_index1, n |-> n + 1]
    IN IF is_empty(table, index) THEN [here EXCEPT !.lazy = lazy, !.lazy_index = lazy_index]
       ELSE IF cmp = "fault" THEN [here EXCEPT !.kind = "fault"]
       ELSE IF cmp = "eq" THEN [here EXCEPT !.kind = "match"]
       ELSE IF start # next
       THEN get_probe(table, key, klen, hash, ub, start, next, lazy1, lazy_index1, n + 1)
       ELSE [here EXCEPT !.index = next]

\* A tail of he4_get / he4_find that leaves the old place as move_cell left
\* it, blank.
touch_found_blank(table, index, lazy, lazy_index) ==
    LET m  == move_cell(table, NoCalls, index, lazy_index)
        t1 == IF lazy THEN m.table ELSE table
        at == IF lazy THEN lazy_index ELSE index
        mt == (t1.max_touch + 1) % WordMod
    IN [table |-> [t1 EXCEPT !.max_touch = mt, !.maps[at].touch = mt],
        calls |-> IF lazy THEN m.calls ELSE NoCalls,
        at |-> at]

\* The tail of he4_get / he4_find on a match at index: with a deleted slot
\* behind, move_cell to it and set klen = 1 at the old place; bump
\* max_touch and stamp the slot that now holds the entry.  at is that slot.
touch_found(table, index, lazy, lazy_index) ==
    LET m  == move_cell(table, NoCalls, index, lazy_index)
        t1 == IF lazy THEN [m.table EXCEPT !.maps[index].klen = 1] ELSE table
        at == IF lazy THEN lazy_index ELSE index
        mt == (t1.max_touch + 1) % WordMod
    IN [table |-> [t1 EXCEPT !.max_touch = mt, !.maps[at].touch = mt],
        calls |-> IF lazy THEN m.calls ELSE NoCalls,
        at |-> at]

\* he4_get: the entry stored for the key (read before any move), or NULL.
he4_get(table, key, klen, ub) ==
    IF key = NULL \/ klen = 0
    THEN Outcome(table, NoCalls, NULL, "ready", 0)
    ELSE LET start == Hash(key) % table.capacity
             p == get_probe(table, key, klen, Hash(key), ub, start, start, FALSE, 0, 0)
             f == touch_found(table, p.index, p.lazy, p.lazy_index)
         IN CASE p.kind = "match" ->
                   Outcome(f.table, f.calls, table.maps[p.index].entry, "ready", p.n)
              [] p.kind = "fault" -> Outcome(table, NoCalls, NULL, "fault", p.n)
              [] OTHER -> Outcome(table, NoCalls, NULL, "ready", p.n)

\* he4_find: the address of the entry field of the slot that holds the
\* key after any move, given as slot index + 1, or NULL.
he4_find(table, key, klen, ub) ==
    IF key = NULL \/ klen = 0
    THEN Outcome(table, NoCalls, NULL, "ready", 0)
    ELSE LET start == Hash(key) % table.capacity
             p == get_probe(table, key, klen, Hash(key), ub, start, start, FALSE, 0, 0)
             f == touch_found(table, p.index, p.lazy, p.lazy_index)
         IN CASE p.kind = "match" -> Outcome(f.table, f.calls, f.at + 1, "ready", p.n)
              [] p.kind = "fault" -> Outcome(table, NoCalls, NULL, "fault", p.n)
              [] OTHER -> Outcome(table, NoCalls, NULL, "ready", p.n)

\* ------------------------------------------------------------------------
\* Destruction, rehash and trim.
\* ------------------------------------------------------------------------

\* he4_delete: free and capacity are set to 0 first, then the loop
\* "index < table->capacity" empties the cells: the destructor calls made.
he4_delete(table, calls) ==
    LET t0 == [table EXCEPT !.free = 0, !.capacity = 0]
        RECURSIVE cells(_, _, _)
        cells(t, c, index) ==
            IF index < t.capacity
            THEN LET r == empty_cell(t, c, index, TRUE, TRUE)
                 IN cells(r.table, r.calls, index + 1)
            ELSE c
    IN cells(t0, calls, 0)

\* The hash of a NULL key with klen = 0 reads nothing: it is a value.
NullHashValue(nullhash) == IF nullhash = -1 THEN 0 ELSE nullhash

\* The move loop of he4_rehash (trim_below = 0, every slot) and of
\* he4_trim_and_rehash (slots with touch < trim_below are skipped): each
\* slot of the old table, whatever its state, goes through insert_cell
\* into newtable with its touch debited.  nullhash is table->hash of a
\* NULL key.  The result is the new table, the calls and the ending.
RECURSIVE move_all(_, _, _, _, _, _, _, _)
move_all(table, newtable, calls, index, trim_below, skip, nullhash, ub) ==
    IF index >= table.capacity
    THEN [table |-> newtable, calls |-> calls, pc |-> "ready"]
    ELSE LET c == table.maps[index]
             h == IF c.key = NULL THEN NullHashValue(nullhash) ELSE Hash(c.key)
             r == insert_cell(newtable, calls, c.key, c.klen, c.entry, FALSE,
                              (c.touch - trim_below) % WordMod, h, ub)
         IN IF skip /\ c.touch < trim_below
            THEN move_all(table, newtable, calls, index + 1, trim_below, skip, nullhash, ub)
            ELSE IF c.key = NULL /\ c.klen > 0 /\ nullhash = -1
            THEN [table |-> newtable, calls |-> calls, pc |-> "fault"]
            ELSE IF r.pc = "fault"
            THEN [table |-> r.table, calls |-> r.calls, pc |-> "fault"]
            ELSE move_all(table, r.table, r.calls, index + 1, trim_below, skip, nullhash, ub)

\* The pointers he4_rehash and he4_trim_and_rehash return besides NULL: the
\* table they were given, and the table he4_new made for them.
OldTable == 1

NewTable == 2

\* A rehash that keeps the table only when the new capacity is smaller.
he4_rehash_strict(table, newsize, alloc_ok, nullhash, ub) ==
    LET capacity == IF newsize = 0 THEN table.capacity * 2 ELSE newsize
        m == move_all(table, he4_new(capacity), NoCalls, 0, 0, FALSE, nullhash, ub)
        old == [table EXCEPT !.maps = [i \in DOMAIN table.maps |-> blank_cell]]
    IN IF capacity < table.capacity THEN Outcome(table, NoCalls, OldTable, "ready", 0)
       ELSE IF capacity < HE4_MINIMUM_SIZE \/ ~alloc_ok
       THEN Outcome(table, NoCalls, NULL, "ready", 0)
       ELSE IF m.pc = "fault" THEN Outcome(m.table, m.calls, NULL, "fault", 0)
       ELSE Outcome([m.table EXCEPT !.max_touch = table.max_touch],
                    he4_delete(old, m.calls), NewTable, "ready", 0)

\* he4_rehash: OldTable with the table untouched when the new capacity is
\* not larger, NULL when he4_new fails, else NewTable with the table built by
\* the move loop, max_touch copied, and the old table deleted.
he4_rehash(table, newsize, alloc_ok, nullhash, ub) ==
    LET capacity == IF newsize = 0 THEN table.capacity * 2 ELSE newsize
        m == move_all(table, he4_new(capacity), NoCalls, 0, 0, FALSE, nullhash, ub)
        old == [table EXCEPT !.maps = [i \in DOMAIN table.maps |-> blank_cell]]
    IN IF capacity <= table.capacity THEN Outcome(table, NoCalls, OldTable, "ready", 0)
       ELSE IF capacity < HE4_MINIMUM_SIZE \/ ~alloc_ok
       THEN Outcome(table, NoCalls, NULL, "ready", 0)
       ELSE IF m.pc = "fault" THEN Outcome(m.table, m.calls, NULL, "fault", 0)
       ELSE Outcome([m.table EXCEPT !.max_touch = table.max_touch],
                    he4_delete(old, m.calls), NewTable, "ready", 0)

\* A trim_and_rehash that gives up the old table when he4_new fails.
he4_trim_and_rehash_wipe(table, newsize, trim_below, alloc_ok, nullhash, ub) ==
    LET cap0 == IF newsize = 0 THEN table.capacity * 2 ELSE newsize
        capacity == IF cap0 < table.capacity THEN table.capacity ELSE cap0
        m == move_all(table, he4_new(capacity), NoCalls, 0, trim_below, TRUE, nullhash, ub)
        old == [table EXCEPT !.maps = [i \in DOMAIN table.maps |->
                    IF table.maps[i].touch < trim_below
                    THEN table.maps[i]
                    ELSE [table.maps[i] EXCEPT !.key = NULL, !.entry = NULL, !.klen = 0]]]
        wiped == [table EXCEPT !.maps = [i \in DOMAIN table.maps |-> blank_cell],
                               !.free = table.capacity]
    IN IF capacity < HE4_MINIMUM_SIZE \/ ~alloc_ok
       THEN Outcome(wiped, NoCalls, NULL, "ready", 0)
       ELSE IF m.pc = "fault" THEN Outcome(m.table, m.calls, NULL, "fault", 0)
       ELSE Outcome([m.table EXCEPT !.max_touch = (table.max_touch - trim_below) % WordMod],
                    he4_delete(old, m.calls), NewTable, "ready", 0)

\* he4_trim_and_rehash: a smaller new capacity is replaced by the current
\* one; slots with touch < trim_below are left behind in the old table
\* (and he4_delete then runs over it); max_touch is debited by trim_below.
he4_trim_and_rehash(table, newsize, trim_below, alloc_ok, nullhash, ub) ==
    LET cap0 == IF newsize = 0 THEN table.capacity * 2 ELSE newsize
        capacity == IF cap0 < table.capacity THEN table.capacity ELSE cap0
        m == move_all(table, he4_new(capacity), NoCalls, 0, trim_below, TRUE, nullhash, ub)
        old == [table EXCEPT !.maps = [i \in DOMAIN table.maps |->
                    IF table.maps[i].touch < trim_below
                    THEN table.maps[i]
                    ELSE [table.maps[i] EXCEPT !.key = NULL, !.entry = NULL, !.klen = 0]]]
    IN IF capacity < HE4_MINIMUM_SIZE \/ ~alloc_ok
       THEN Outcome(table, NoCalls, NULL, "ready", 0)
       ELSE IF m.pc = "fault" THEN Outcome(m.table, m.calls, NULL, "fault", 0)
       ELSE Outcome([m.table EXCEPT !.max_touch = (table.max_touch - trim_below) % WordMod],
                    he4_delete(old, m.calls), NewTable, "ready", 0)

\* The search "while (!is_open(table, best)) ++best" of he4_trim: the first
\* open slot at or after best, or capacity when the search leaves maps.
RECURSIVE best_slot(_, _)
best_slot(table, best) ==
    IF best >= table.capacity THEN best
    ELSE IF is_open(table, best) THEN best
    ELSE best_slot(table, best + 1)

\* One traversal of he4_trim from slot index on.  past is what the read
\* beyond maps[capacity - 1] leads to: "fault", or "beyond" when memory
\* there looks like an open slot and receives the cell.
RECURSIVE trim_pass(_, _, _, _, _, _)
trim_pass(table, calls, index, moved, trim_below, past) ==
    IF index >= table.capacity
    THEN [table |-> table, calls |-> calls, moved |-> moved, pc |-> "ready"]
    ELSE LET c == table.maps[index]
             best == best_slot(table, c.hash % table.capacity)
             gone == [c EXCEPT !.key = NULL, !.entry = NULL, !.klen = 0, !.hash = 0]
             left == [table EXCEPT !.maps[index] = blank_cell]
         IN IF is_empty(table, index)
            THEN trim_pass(table, calls, index + 1, moved, trim_below, past)
            ELSE IF is_deleted(table, index)
            THEN trim_pass([table EXCEPT !.maps[index].klen = 0], calls,
                           index + 1, moved, trim_below, past)
            ELSE IF c.touch < trim_below
            THEN trim_pass([table EXCEPT !.maps[index] = gone,
                                         !.free = (table.free + 1) % WordMod],
                           [dk |-> Append(calls.dk, c.key), de |-> Append(calls.de, c.entry)],
                           index + 1, moved, trim_below, past)
            ELSE IF c.hash % table.capacity = index \/ table.free = 0
            THEN trim_pass(table, calls, index + 1, moved, trim_below, past)
            ELSE IF best >= table.capacity
            THEN IF past = "fault"
                 THEN [table |-> table, calls |-> calls, moved |-> moved, pc |-> "fault"]
                 ELSE trim_pass(left, calls, index + 1, TRUE, trim_below, past)
            ELSE trim_pass([left EXCEPT !.maps[best] =
                                [c EXCEPT !.touch = (c.touch - trim_below) % WordMod]],
                           calls, index + 1, TRUE, trim_below, past)

\* The loop "while (moved)" of he4_trim.  A traversal is a function of the
\* table, so a table seen before at the start of a traversal means that
\* the loop never ends.
RECURSIVE trim_loop(_, _, _, _, _)
trim_loop(table, calls, seen, trim_below, past) ==
    LET r == trim_pass(table, calls, 0, FALSE, trim_below, past)
    IN IF table \in seen THEN [table |-> table, calls |-> calls, pc |-> "hung"]
       ELSE IF r.pc = "fault" \/ ~r.moved THEN [table |-> r.table, calls |-> r.calls, pc |-> r.pc]
       ELSE trim_loop(r.table, r.calls, seen \cup {table}, trim_below, past)

\* he4_trim: in place, returns nothing.
he4_trim(table, trim_below, past) ==
    LET r == trim_loop(table, NoCalls, {}, trim_below, past)
    IN Outcome(r.table, r.calls, NULL, r.pc, 0)

\* ------------------------------------------------------------------------
\* The constructor and the table data, as the caller calls them.
\* ------------------------------------------------------------------------

\* HE4_MINIMUM_SIZE as the header sets it when the build does not.
DefaultMinimumSize == 64

\* A constructor that also turns down a request for the minimum itself.
he4_new_on_lax(t, entries, minimum, alloc_ok) ==
    IF entries <= minimum \/ ~alloc_ok
    THEN Outcome(t, NoCalls, NULL, "ready", 0)
    ELSE Outcome(he4_new(entries), NoCalls, NewTable, "ready", 0)

\* he4_new called by a caller who holds table t, in a build whose
\* HE4_MINIMUM_SIZE is minimum: NULL when entries is below it or when an
\* allocation fails (alloc_ok is false), else the new table.
he4_new_on(t, entries, minimum, alloc_ok) ==
    IF entries < minimum \/ ~alloc_ok
    THEN Outcome(t, NoCalls, NULL, "ready", 0)
    ELSE Outcome(he4_new(entries), NoCalls, NewTable, "ready", 0)

\* he4_size with its table argument: 0 for a NULL table.
he4_size_on(handle, t) ==
    Outcome(t, NoCalls, IF handle = NULL THEN 0 ELSE he4_size(t), "ready", 0)

\* he4_capacity: 0 for a NULL table.
he4_capacity(handle, t) ==
    Outcome(t, NoCalls, IF handle = NULL THEN 0 ELSE t.capacity, "ready", 0)

\* What the read of a field through a NULL table pointer may do: fault
\* (-1), or yield what lies at that address.
NullReads == {-1, 0, 1}

\* he4_max_touch: table->max_touch, read without a test of table.
he4_max_touch(handle, t, nullread) ==
    IF handle # NULL THEN Outcome(t, NoCalls, t.max_touch, "ready", 0)
    ELSE IF nullread = -1 THEN Outcome(t, NoCalls, 0, "fault", 0)
    ELSE Outcome(t, NoCalls, nullread, "ready", 0)

\* Modulus of size_t in he4_best_capacity, wide enough for the two sizes.
ByteMod == 256

\* sizeof(HE4): four function pointers, three size_t and a pointer.
SizeofHE4 == 64

\* sizeof(he4_map_t): key, klen, entry, a 32-bit hash with padding, touch.
SizeofMap == 40

\* he4_best_capacity: bytes -= sizeof(HE4) in size_t, then the quotient.
he4_best_capacity(bytes) == ((bytes - SizeofHE4) % ByteMod) \div SizeofMap

\* ------------------------------------------------------------------------
\* The state machine: a caller holding one table.
\* ------------------------------------------------------------------------

\* table:    the HE4 structure the caller holds.
\* pc:       "ready", or "hung" / "fault" once a call did not return.
\* last:     the last call: its name, its key and entry arguments and its
\*           return value.
\* inserted: history: the key bytes given to a successful insert or
\*           force_insert so far.
\* replaced: the number of rehash and trim calls made so far.
VARIABLES table, pc, last, inserted, replaced

vars == <<table, pc, last, inserted, replaced>>

Call(op, key, entry, r) == [op |-> op, key |-> key, entry |-> entry, ret |-> r.ret]

\* Argument triples of insert and force_insert: a key object, its length
\* and an entry.
InsertArgs == {<<k, KeyLen(k), e>> : k \in Keys, e \in Entries}

\* Argument pairs of get, find, remove and discard.
KeyArgs == {<<k, KeyLen(k)>> : k \in Keys}

\* Thresholds given to he4_trim and he4_trim_and_rehash: none, one that
\* splits the touch indices issued, and one above all of them.
TrimFloors == {0, 2, MaxTouch + 1}

Init ==
    /\ \E entries \in HE4_MINIMUM_SIZE..MaxInitCapacity : table = he4_new(entries)
    /\ pc = "ready"
    /\ last = [op |-> "new", key |-> NULL, entry |-> NULL, ret |-> NULL]
    /\ inserted = {}
    /\ replaced = 0

\* The effect of a call with outcome r.
Apply(op, key, entry, r) ==
    /\ table' = r.table
    /\ pc' = r.pc
    /\ last' = Call(op, key, entry, r)

Insert ==
    /\ pc = "ready"
    /\ table.max_touch < MaxTouch
    /\ \E a \in InsertArgs :
       \E ub \in Reached(LAMBDA u : he4_insert(table, a[1], a[2], a[3], u)) :
         LET r == he4_insert(table, a[1], a[2], a[3], ub)
         IN /\ Apply("insert", a[1], a[3], r)
            /\ inserted' = IF r.pc = "ready" /\ r.ret = FALSE
                           THEN inserted \cup {Content(a[1])} ELSE inserted
    /\ UNCHANGED replaced

\* A forced insert has succeeded when it got past the argument checks.
ForceInsert ==
    /\ pc = "ready"
    /\ table.max_touch < MaxTouch
    /\ \E a \in InsertArgs :
       \E ub \in Reached(LAMBDA u : he4_force_insert(table, a[1], a[2], a[3], u)) :
         LET r == he4_force_insert(table, a[1], a[2], a[3], ub)
         IN /\ Apply("force_insert", a[1], a[3], r)
            /\ inserted' = IF r.pc = "ready" /\ a[1] # NULL /\ a[2] # 0 /\ a[3] # NULL
                           THEN inserted \cup {Content(a[1])} ELSE inserted
    /\ UNCHANGED replaced

Get ==
    /\ pc = "ready"
    /\ table.max_touch < MaxTouch
    /\ \E a \in KeyArgs :
       \E ub \in Reached(LAMBDA u : he4_get(table, a[1], a[2], u)) :
         Apply("get", a[1], NULL, he4_get(table, a[1], a[2], ub))
    /\ UNCHANGED <<inserted, replaced>>

Find ==
    /\ pc = "ready"
    /\ table.max_touch < MaxTouch
    /\ \E a \in KeyArgs :
       \E ub \in Reached(LAMBDA u : he4_find(table, a[1], a[2], u)) :
         Apply("find", a[1], NULL, he4_find(table, a[1], a[2], ub))
    /\ UNCHANGED <<inserted, replaced>>

Remove ==
    /\ pc = "ready"
    /\ \E a \in KeyArgs : Apply("remove", a[1], NULL, he4_remove(table, a[1], a[2]))
    /\ UNCHANGED <<inserted, replaced>>

Discard ==
    /\ pc = "ready"
    /\ \E a \in KeyArgs : Apply("discard", a[1], NULL, he4_discard(table, a[1], a[2]))
    /\ UNCHANGED <<inserted, replaced>>

\* The table argument of a call: NULL, or the table the caller holds.
Handles == {NULL, OldTable}

\* Arguments of insert and force_insert that fail an argument check: a NULL
\* table, a NULL key, a key length of 0 or a NULL entry.
InvalidInsertArgs ==
    {a \in Handles \X (Keys \cup {NULL}) \X {0, 1, 2} \X (Entries \cup {NULL}) :
        /\ a[1] = NULL \/ a[2] = NULL \/ a[3] = 0 \/ a[4] = NULL
        /\ a[2] # NULL => a[3] \in {0, KeyLen(a[2])}}

\* he4_insert called with table argument handle: the check "table == NULL"
\* comes first, the caller's table is then not touched.
he4_insert_on(handle, t, key, klen, entry, ub) ==
    IF handle = NULL
    THEN Outcome(t, NoCalls, TRUE, "ready", 0)
    ELSE he4_insert(t, key, klen, entry, ub)

\* he4_force_insert called with table argument handle.
he4_force_insert_on(handle, t, key, klen, entry, ub) ==
    IF handle = NULL
    THEN Outcome(t, NoCalls, TRUE, "ready", 0)
    ELSE he4_force_insert(t, key, klen, entry, ub)

InsertInvalid ==
    /\ pc = "ready"
    /\ \E a \in InvalidInsertArgs :
         Apply("insert_invalid", a[2], a[4],
               he4_insert_on(a[1], table, a[2], a[3], a[4], "ne"))
    /\ UNCHANGED <<inserted, replaced>>

ForceInsertInvalid ==
    /\ pc = "ready"
    /\ \E a \in InvalidInsertArgs :
         Apply("force_insert_invalid", a[2], a[4],
               he4_force_insert_on(a[1], table, a[2], a[3], a[4], "ne"))
    /\ UNCHANGED <<inserted, replaced>>

\* New capacities asked for: the default (0), smaller ones, the current
\* one and larger ones.
NewSizes == 0..MaxCapacity

\* The outcomes of the undefined calls to choose from in a rehash F: all
\* combinations when F hashes a NULL key of positive length or reaches
\* the undefined comparison, else only the value of the hash of a NULL key.
RehashChoices(F(_, _)) ==
    IF F(-1, "fault").pc = "fault"
    THEN NullHashes \X UBCompare
    ELSE (NullHashes \ {-1}) \X {"ne"}

\* What can lie behind the end of maps, when a trim F reads there.
TrimChoices(F(_)) == IF F("fault").pc = "fault" THEN {"fault", "beyond"} ELSE {"beyond"}

\* The caller keeps the old table when he4_rehash returns NULL (README,
\* Rehashing) and takes the returned one otherwise.
Rehash ==
    /\ pc = "ready"
    /\ replaced < MaxReplace
    /\ \E newsize \in NewSizes, alloc_ok \in BOOLEAN :
         /\ (IF newsize = 0 THEN table.capacity * 2 ELSE newsize) <= MaxCapacity
         /\ \E c \in RehashChoices(LAMBDA n, u : he4_rehash(table, newsize, alloc_ok, n, u)) :
              Apply("rehash", NULL, NULL,
                    he4_rehash(table, newsize, alloc_ok, c[1], c[2]))
    /\ replaced' = replaced + 1
    /\ UNCHANGED inserted

Trim ==
    /\ pc = "ready"
    /\ replaced < MaxReplace
    /\ \E trim_below \in TrimFloors :
         \E past \in TrimChoices(LAMBDA q : he4_trim(table, trim_below, q)) :
            Apply("trim", NULL, NULL, he4_trim(table, trim_below, past))
    /\ replaced' = replaced + 1
    /\ UNCHANGED inserted

TrimAndRehash ==
    /\ pc = "ready"
    /\ replaced < MaxReplace
    /\ \E newsize \in NewSizes, trim_below \in TrimFloors, alloc_ok \in BOOLEAN :
         /\ (IF newsize = 0 THEN table.capacity * 2 ELSE newsize) <= MaxCapacity
         /\ \E c \in RehashChoices(LAMBDA n, u :
                       he4_trim_and_rehash(table, newsize, trim_below, alloc_ok, n, u)) :
              Apply("trim_and_rehash", NULL, NULL,
                    he4_trim_and_rehash(table, newsize, trim_below, alloc_ok, c[1], c[2]))
    /\ replaced' = replaced + 1
    /\ UNCHANGED inserted

\* The operations on one table of fixed capacity.
NextCore == Insert \/ ForceInsert \/ Get \/ Find \/ Remove \/ Discard

SpecCore == Init /\ [][NextCore]_vars

\* All operations, the replacement of the table included.
Next == Insert \/ ForceInsert \/ Get \/ Find \/ Remove \/ Discard
           \/ Rehash \/ Trim \/ TrimAndRehash

Spec == Init /\ [][Next]_vars

\* Inserts with valid and with invalid arguments.
NextArgs == Insert \/ ForceInsert \/ InsertInvalid \/ ForceInsertInvalid

SpecArgs == Init /\ [][NextArgs]_vars

\* Plain inserts only: a table being filled.
SpecFill == Init /\ [][Insert]_vars

\* Capacities asked of he4_new: from 0 to the largest initial capacity.
NewEntries == 0..MaxInitCapacity

\* The caller makes another table and, when he4_new returns one, goes on
\* with it; the keys given so far belong to the table left behind.
New ==
    /\ pc = "ready"
    /\ \E entries \in NewEntries, alloc_ok \in BOOLEAN :
         LET r == he4_new_on(table, entries, HE4_MINIMUM_SIZE, alloc_ok)
         IN /\ Apply("he4_new", NULL, NULL, r)
            /\ inserted' = IF r.ret = NewTable THEN {} ELSE inserted
    /\ UNCHANGED replaced

\* The data functions; last.key is the table argument.
SizeOf ==
    /\ pc = "ready"
    /\ \E handle \in Handles : Apply("size", handle, NULL, he4_size_on(handle, table))
    /\ UNCHANGED <<inserted, replaced>>

CapacityOf ==
    /\ pc = "ready"
    /\ \E handle \in Handles : Apply("capacity", handle, NULL, he4_capacity(handle, table))
    /\ UNCHANGED <<inserted, replaced>>

MaxTouchOf ==
    /\ pc = "ready"
    /\ \E handle \in Handles :
       \E nullread \in (IF handle = NULL THEN NullReads ELSE {0}) :
          Apply("max_touch", handle, NULL, he4_max_touch(handle, table, nullread))
    /\ UNCHANGED <<inserted, replaced>>

\* The constructor, the data functions and the calls that fill and empty a
\* table.
NextTable == New \/ Insert \/ Remove \/ SizeOf \/ CapacityOf \/ MaxTouchOf

SpecTable == Init /\ [][NextTable]_vars

\* Byte budgets given to he4_best_capacity.
Budgets == 0..(ByteMod - 1)

\* he4_best_capacity reads no table; last.key is the byte budget.
BestCapacity ==
    /\ pc = "ready"
    /\ \E bytes \in Budgets :
         last' = [op |-> "best_capacity", key |-> bytes, entry |-> NULL,
                  ret |-> he4_best_capacity(bytes)]
    /\ UNCHANGED <<table, pc, inserted, replaced>>

SpecBytes == Init /\ [][BestCapacity]_vars

\* ------------------------------------------------------------------------
\* Vocabulary of the properties.
\* ------------------------------------------------------------------------

Slots(t) == 0..(t.capacity - 1)

OccupiedSlots(t) == {i \in Slots(t) : is_occupied(t, i)}

\* The slots that hold a key with the bytes of k.
SlotsOf(t, k) == {i \in OccupiedSlots(t) : Content(t.maps[i].key) = Content(k)}

Stored(t, k) == SlotsOf(t, k) # {}

\* The position of slot i in the probe sequence of key k.
ProbeRank(t, k, i) == (i - Hash(k)) % t.capacity

\* The first slot of k in its probe sequence.
FirstSlotOf(t, k) ==
    CHOOSE i \in SlotsOf(t, k) : \A j \in SlotsOf(t, k) : ProbeRank(t, k, i) <= ProbeRank(t, k, j)

\* The slots the probe sequence of k visits before slot i.
Before(t, k, i) == {j \in Slots(t) : ProbeRank(t, k, j) < ProbeRank(t, k, i)}

\* Slot i is reachable for k: no empty slot lies before it on the path.
Reachable(t, k, i) == \A j \in Before(t, k, i) : ~is_empty(t, j)

\* ------------------------------------------------------------------------
\* Properties.
\* ------------------------------------------------------------------------

\* he4_get evaluated on table t whatever the undefined comparison shows:
\* it returns, and it returns v.
GetReturns(t, k, v) ==
    \A ub \in UBCompare :
        LET r == he4_get(t, k, KeyLen(k), ub) IN r.pc = "ready" /\ r.ret = v

\* C1: after an insert(k, e) that returned false, on a table reached by
\* insert, force_insert, get, find, remove and discard, a get(k) that
\* follows immediately returns e.
C1_InsertThenGet ==
    (pc = "ready" /\ last.op = "insert" /\ last.ret = FALSE)
        => GetReturns(table, last.key, last.entry)

\* C1 witness: a successful insert has just put its key behind its first
\* probe slot, in a table that also holds a deleted slot.
C1_Witness ==
    /\ pc = "ready" /\ last.op = "insert" /\ last.ret = FALSE
    /\ \E i \in SlotsOf(table, last.key) : ProbeRank(table, last.key, i) > 0
    /\ \E i \in Slots(table) : is_deleted(table, i)

\* C2: when remove(k) is called in a state in which k is stored, it
\* returns the entry stored for k, he4_size decreases by exactly one, and a
\* get(k) that follows returns NULL.
C2_RemoveStored ==
    [][(pc = "ready" /\ last'.op = "remove" /\ Stored(table, last'.key))
         => /\ pc' = "ready"
            /\ last'.ret \in {table.maps[i].entry : i \in SlotsOf(table, last'.key)}
            /\ he4_size(table') = he4_size(table) - 1
            /\ GetReturns(table', last'.key, NULL)]_vars

\* C3: the free field is the number of slots that are not occupied, and
\* he4_size is the number of occupied slots, in every state reached by any
\* sequence of operations, rehash, trim and trim_and_rehash included.
C3_FreeCount ==
    pc = "ready"
        => /\ table.free = Cardinality(Slots(table) \ OccupiedSlots(table))
           /\ he4_size(table) = Cardinality(OccupiedSlots(table))

\* The outcomes of the six table operations for key k and entry e in t.
ProbingOutcomes(t, k, e) ==
    <<he4_insert(t, k, KeyLen(k), e, "ne"), he4_force_insert(t, k, KeyLen(k), e, "ne"),
      he4_get(t, k, KeyLen(k), "ne"), he4_find(t, k, KeyLen(k), "ne"),
      he4_remove(t, k, KeyLen(k)), he4_discard(t, k, KeyLen(k))>>

\* C4: in every reachable state, insert, force_insert, get, find, remove
\* and discard each end after at most capacity iterations of their probe
\* loop.
C4_ProbesBounded ==
    /\ pc # "hung"
    /\ pc = "ready"
         => \A k \in Keys, e \in Entries : \A op \in 1..6 :
               LET r == ProbingOutcomes(table, k, e)[op]
               IN r.pc # "hung" /\ r.probes <= table.capacity

\* Key k is stored at a slot its probe sequence reaches without crossing
\* an empty slot, and crosses a deleted slot on the way.
BehindDeleted(t, k) ==
    /\ Stored(t, k)
    /\ Reachable(t, k, FirstSlotOf(t, k))
    /\ \E j \in Before(t, k, FirstSlotOf(t, k)) : is_deleted(t, j)

\* C5: remove(k) and discard(k) find and remove a stored key k that lies
\* behind one or more deleted slots of its probe path.
C5_RemovePastDeleted ==
    pc = "ready"
        => \A k \in Keys :
              BehindDeleted(table, k)
                 => LET i == FirstSlotOf(table, k)
                        r == he4_remove(table, k, KeyLen(k))
                        d == he4_discard(table, k, KeyLen(k))
                    IN /\ r.pc = "ready" /\ r.ret = table.maps[i].entry
                       /\ is_deleted(r.table, i)
                       /\ d.pc = "ready" /\ d.ret = FALSE
                       /\ is_deleted(d.table, i)

\* C6: for a key whose bytes were never given to a successful insert or
\* force_insert, get and find return NULL in every reachable state.
C6_NeverInserted ==
    pc = "ready"
        => \A k \in Keys :
              Content(k) \notin inserted
                 => \A ub \in UBCompare :
                       LET g == he4_get(table, k, KeyLen(k), ub)
                           f == he4_find(table, k, KeyLen(k), ub)
                       IN /\ g.pc = "ready" /\ g.ret = NULL
                          /\ f.pc = "ready" /\ f.ret = NULL

\* C7: from a new table of capacity N, plain inserts of pairwise distinct
\* keys succeed while fewer than N are stored, he4_size being the number
\* inserted so far; once N are stored a plain insert of a new key returns
\* true and he4_size stays N.
C7_FillThenFull ==
    /\ pc = "ready"
    /\ he4_size(table) = Cardinality(inserted)
    /\ Cardinality(inserted) <= table.capacity
    /\ (last.op = "insert" /\ last.ret = TRUE) => he4_size(table) = table.capacity
    /\ \A k \in Keys, e \in Entries :
          Content(k) \notin inserted
             => LET r == he4_insert(table, k, KeyLen(k), e, "ne")
                IN /\ r.pc = "ready"
                   /\ IF he4_size(table) < table.capacity
                      THEN r.ret = FALSE /\ he4_size(r.table) = he4_size(table) + 1
                      ELSE r.ret = TRUE /\ he4_size(r.table) = table.capacity

\* C7 witness: the table is filled with as many distinct keys as it has
\* slots and the insert of one more new key has just returned true.
C7_Witness ==
    /\ last.op = "insert" /\ last.ret = TRUE
    /\ Content(last.key) \notin inserted
    /\ Cardinality(inserted) = table.capacity
    /\ he4_size(table) = table.capacity

\* C8: a plain insert that returns true because the probe cycle found no
\* open slot and no matching key leaves every slot, free and max_touch as
\* they were and calls no destructor.
C8_FullInsertNoChange ==
    [][(pc' = "ready" /\ last'.op = "insert" /\ last'.ret = TRUE)
         => /\ table' = table
            /\ he4_insert(table, last'.key, KeyLen(last'.key), last'.entry, "ne").calls
                 = NoCalls]_vars

\* C8 witness: a plain insert of a key that is not stored has just
\* returned true on a table whose slots are all occupied.
C8_Witness ==
    /\ pc = "ready" /\ last.op = "insert" /\ last.ret = TRUE
    /\ OccupiedSlots(table) = Slots(table)
    /\ ~Stored(table, last.key)

\* The slot with the lowest touch index, the first in the probe order of
\* key k among equals.
LRUSlot(t, k) ==
    CHOOSE i \in Slots(t) :
       \A j \in Slots(t) \ {i} :
          \/ t.maps[i].touch < t.maps[j].touch
          \/ /\ t.maps[i].touch = t.maps[j].touch
             /\ ProbeRank(t, k, i) < ProbeRank(t, k, j)

C10_ForceInsertThenGet ==
    (pc = "ready" /\ last.op = "force_insert")
        => GetReturns(table, last.key, last.entry)

\* C10 witness: a forced insert has just evicted a victim from a table
\* that a rehash or a trim had handed back.
C10_Witness ==
    /\ pc = "ready" /\ last.op = "force_insert" /\ last.ret = TRUE
    /\ replaced > 0
    /\ table.maps[FirstSlotOf(table, last.key)].entry = last.entry

\* C11: force_insert with valid arguments returns true exactly when it
\* destroyed and overwrote an occupied slot that held another key, and
\* false when it wrote at an open slot or replaced the entry of the
\* matching key.
C11_ForceInsertReturn ==
    [][(pc = "ready" /\ last'.op = "force_insert")
         => LET k == last'.key
                r == he4_force_insert(table, k, KeyLen(k), last'.entry, "ne")
                gone == {i \in OccupiedSlots(table) :
                            /\ Content(table.maps[i].key) # Content(k)
                            /\ table'.maps[i].key = k
                            /\ r.calls = [dk |-> <<table.maps[i].key>>,
                                          de |-> <<table.maps[i].entry>>]}
                open == {i \in Slots(table) :
                            is_open(table, i) /\ table'.maps[i].key = k}
                kept == {i \in SlotsOf(table, k) :
                            /\ table'.maps[i].key = table.maps[i].key
                            /\ table'.maps[i].entry = last'.entry}
            IN /\ pc' = "ready"
               /\ last'.ret = TRUE <=> gone # {}
               /\ last'.ret = FALSE <=> (open # {} \/ kept # {})
               /\ last'.ret = FALSE => r.calls.dk = << >>]_vars

\* C11 witness: a forced insert has just returned false on a table whose
\* slots are now all occupied.
C11_Witness ==
    /\ pc = "ready" /\ last.op = "force_insert" /\ last.ret = FALSE
    /\ OccupiedSlots(table) = Slots(table)
    /\ Cardinality(SlotsOf(table, last.key)) = 1

\* C12: in every reachable state in which key k is stored, insert(k, e2)
\* returns false, leaves he4_size and free as they were, keeps the key
\* object of every slot, changes nothing but the entry and the touch index
\* of a slot of k, and a get(k) that follows returns e2.
C12_InsertStoredKey ==
    [][(pc = "ready" /\ last'.op = "insert" /\ Stored(table, last'.key))
         => /\ pc' = "ready" /\ last'.ret = FALSE
            /\ he4_size(table') = he4_size(table)
            /\ table'.free = table.free
            /\ \A i \in Slots(table) :
                  /\ table'.maps[i].key = table.maps[i].key
                  /\ table'.maps[i].klen = table.maps[i].klen
                  /\ table'.maps[i].hash = table.maps[i].hash
                  /\ i \notin SlotsOf(table, last'.key)
                        => table'.maps[i] = table.maps[i]
            /\ GetReturns(table', last'.key, last'.entry)]_vars

\* C13: insert and force_insert called with a NULL table, a NULL key, a
\* NULL entry or a key length of 0 return true and leave every slot, free
\* and max_touch of the table as they were.
C13_InvalidArguments ==
    [][(last'.op \in {"insert_invalid", "force_insert_invalid"})
         => /\ pc' = "ready"
            /\ last'.ret = TRUE
            /\ table' = table]_vars

\* C13 witness: a forced insert of a key and an entry that are not NULL,
\* so with a NULL table or a key length of 0, has just returned on a table
\* that holds keys.
C13_Witness ==
    /\ pc = "ready" /\ last.op = "force_insert_invalid" /\ last.ret = TRUE
    /\ last.key # NULL /\ last.entry # NULL
    /\ OccupiedSlots(table) # {}

\* he4_get evaluated on table t, for the return value alone.
GetValue(t, k) == he4_get(t, k, KeyLen(k), "ne").ret

\* C14: he4_rehash(table, c) with c larger than the capacity returns a
\* table of capacity c in which get(k) returns what it returned before for
\* every key k that was stored, and whose max_touch is that of the old
\* table.
C14_RehashKeeps ==
    pc = "ready"
        => \A c \in (table.capacity + 1)..MaxCapacity :
           \A nullhash \in NullHashes, ub \in UBCompare :
              LET r == he4_rehash(table, c, TRUE, nullhash, ub)
              IN /\ r.pc = "ready"
                 /\ r.ret = NewTable
                 /\ r.table.capacity = c
                 /\ r.table.max_touch = table.max_touch
                 /\ \A k \in Keys :
                       Stored(table, k) => GetValue(r.table, k) = GetValue(table, k)

\* C15: he4_rehash moves the occupied slots of the old table and nothing
\* else: he4_size of the table it returns is he4_size of the old table,
\* and the empty and deleted slots of the old table take no slot and no
\* unit of free in the new one.
C15_RehashMovesOccupied ==
    pc = "ready"
        => \A c \in (table.capacity + 1)..MaxCapacity :
           \A nullhash \in NullHashes \ {-1} :
              LET r == he4_rehash(table, c, TRUE, nullhash, "ne")
              IN r.pc = "ready"
                    => /\ he4_size(r.table) = he4_size(table)
                       /\ r.table.free = c - Cardinality(OccupiedSlots(table))
                       /\ Cardinality(OccupiedSlots(r.table))
                             = Cardinality(OccupiedSlots(table))
                       /\ \A i \in Slots(r.table) \ OccupiedSlots(r.table) :
                             r.table.maps[i] = blank_cell

\* C16: he4_rehash(table, c) with c not 0 and not larger than the capacity
\* returns the table it was given, with every slot, free, capacity and
\* max_touch as they were, and calls no destructor.
C16_RehashNotLarger ==
    pc = "ready"
        => \A c \in 1..table.capacity, alloc_ok \in BOOLEAN :
           \A nullhash \in NullHashes, ub \in UBCompare :
              he4_rehash(table, c, alloc_ok, nullhash, ub)
                 = Outcome(table, NoCalls, OldTable, "ready", 0)

\* C16 witness: he4_rehash has just returned the table it was given, a
\* table that holds a key and a deleted slot.
C16_Witness ==
    /\ pc = "ready" /\ last.op = "rehash" /\ last.ret = OldTable
    /\ OccupiedSlots(table) # {}
    /\ \E i \in Slots(table) : is_deleted(table, i)

\* C17: when the new table cannot be allocated, he4_rehash (asked for a
\* larger capacity) and he4_trim_and_rehash return NULL, call no
\* destructor and leave every slot, free, capacity and max_touch of the
\* original table as they were.  (The calls are made with a hash and a
\* comparison that fault on a NULL key: none is reached.)
C17_AllocationFailure ==
    pc = "ready"
        => \A c \in NewSizes, trim_below \in TrimFloors :
              /\ (IF c = 0 THEN table.capacity * 2 ELSE c) > table.capacity
                    => he4_rehash(table, c, FALSE, -1, "fault")
                          = Outcome(table, NoCalls, NULL, "ready", 0)
              /\ he4_trim_and_rehash(table, c, trim_below, FALSE, -1, "fault")
                    = Outcome(table, NoCalls, NULL, "ready", 0)

\* C17 witness: he4_trim_and_rehash has just returned NULL to a caller
\* whose table holds a key.
C17_Witness ==
    /\ pc = "ready" /\ last.op = "trim_and_rehash" /\ last.ret = NULL
    /\ OccupiedSlots(table) # {}

\* The key object, the entry and the touch index less f of the occupied
\* slots of t whose touch index is at least f.
Survivors(t, f) ==
    {<<t.maps[i].key, t.maps[i].entry, t.maps[i].touch - f>> :
        i \in {j \in OccupiedSlots(t) : t.maps[j].touch >= f}}

\* C18: he4_trim_and_rehash(table, cap, f) returns a table that holds
\* exactly the keys whose touch index was at least f in the old table,
\* each with its old entry and with its old touch index less f.
C18_TrimAndRehashKeeps ==
    pc = "ready"
        => \A cap \in NewSizes, f \in TrimFloors :
           \A nullhash \in NullHashes, ub \in UBCompare :
              LET r == he4_trim_and_rehash(table, cap, f, TRUE, nullhash, ub)
              IN /\ r.pc = "ready"
                 /\ r.ret = NewTable
                 /\ Survivors(r.table, 0) = Survivors(table, f)
                 /\ Cardinality(OccupiedSlots(r.table)) = Cardinality(Survivors(table, f))

\* C19: he4_trim_and_rehash called with a new size that is not 0 and is
\* smaller than the capacity returns the table it was given with nothing
\* changed: no entry trimmed, no touch index altered, no destructor called.
C19_TrimAndRehashSmaller ==
    pc = "ready"
        => \A c \in 1..(table.capacity - 1), f \in TrimFloors :
           \A nullhash \in NullHashes, ub \in UBCompare :
              he4_trim_and_rehash(table, c, f, TRUE, nullhash, ub)
                 = Outcome(table, NoCalls, OldTable, "ready", 0)

\* The key objects of the occupied slots of t whose touch index is at
\* least f.
KeysAbove(t, f) == {t.maps[i].key : i \in {j \in OccupiedSlots(t) : t.maps[j].touch >= f}}

\* C20: after he4_trim(table, f) has returned, the keys whose touch index
\* was below f are gone, no other key is, and get(k) returns the entry it
\* returned before for every other key k that was stored.
C20_TrimInPlace ==
    pc = "ready"
        => \A f \in TrimFloors, past \in {"fault", "beyond"} :
              LET r == he4_trim(table, f, past)
              IN /\ r.pc = "ready"
                 /\ KeysAbove(r.table, 0) = KeysAbove(table, f)
                 /\ \A k \in KeysAbove(table, f) :
                       GetValue(r.table, k) = GetValue(table, k)

\* C21: he4_trim(table, f) comes to an end in every reachable state of the
\* table and for every threshold f, 0 included: its loop reaches a
\* traversal that moves no cell.
C21_TrimTerminates ==
    pc = "ready"
        => \A f \in TrimFloors, past \in {"fault", "beyond"} :
              he4_trim(table, f, past).pc # "hung"

\* The occupied slots of t whose touch index is at least f.
Retained(t, f) == {i \in OccupiedSlots(t) : t.maps[i].touch >= f}

\* C22: after he4_trim(table, f) every slot that is still occupied holds a
\* key and an entry of a slot that was retained, with that slot's touch
\* index less f, whether the cell was moved or not.
C22_TrimDebitsOnce ==
    pc = "ready"
        => \A f \in TrimFloors, past \in {"fault", "beyond"} :
              LET r == he4_trim(table, f, past)
              IN r.pc = "ready"
                    => \A i \in OccupiedSlots(r.table) :
                          \E j \in Retained(table, f) :
                             /\ r.table.maps[i].key = table.maps[j].key
                             /\ r.table.maps[i].entry = table.maps[j].entry
                             /\ r.table.maps[i].touch = table.maps[j].touch - f

\* The number of times x occurs in the sequence s.
Count(s, x) == Cardinality({n \in DOMAIN s : s[n] = x})

\* C23: he4_delete hands the key of every occupied slot to the key
\* destructor and its entry to the entry destructor, once for each slot
\* that holds it.
C23_DeleteDestroys ==
    pc = "ready"
        => LET c == he4_delete(table, NoCalls)
           IN \A i \in OccupiedSlots(table) :
                 /\ Count(c.dk, table.maps[i].key)
                       = Cardinality({j \in OccupiedSlots(table) :
                                         table.maps[j].key = table.maps[i].key})
                 /\ Count(c.de, table.maps[i].entry)
                       = Cardinality({j \in OccupiedSlots(table) :
                                         table.maps[j].entry = table.maps[i].entry})

\* The occupied slots of t whose touch index is below f.
Trimmed(t, f) == {i \in OccupiedSlots(t) : t.maps[i].touch < f}

\* C24: he4_trim_and_rehash(table, cap, f) hands the key and the entry of
\* every occupied slot of the old table whose touch index is below f to
\* the key destructor and to the entry destructor.
C24_TrimAndRehashDestroys ==
    pc = "ready"
        => \A cap \in NewSizes, f \in TrimFloors :
           \A nullhash \in NullHashes \ {-1} :
              LET r == he4_trim_and_rehash(table, cap, f, TRUE, nullhash, "ne")
              IN r.pc = "ready"
                    => \A i \in Trimmed(table, f) :
                          /\ Count(r.calls.dk, table.maps[i].key) >= 1
                          /\ Count(r.calls.de, table.maps[i].entry) >= 1

\* C25: he4_discard of a stored key returns false, hands the key and the
\* entry of the slot to the destructors once each, leaves that slot
\* deleted and adds one to free; he4_discard of a key that is not stored
\* returns true.
C25_Discard ==
    pc = "ready"
        => \A k \in Keys :
              LET d == he4_discard(table, k, KeyLen(k))
              IN /\ d.pc = "ready"
                 /\ Stored(table, k)
                       => /\ d.ret = FALSE
                          /\ d.table.free = table.free + 1
                          /\ \E i \in SlotsOf(table, k) :
                                /\ is_deleted(d.table, i)
                                /\ d.calls = [dk |-> <<table.maps[i].key>>,
                                              de |-> <<table.maps[i].entry>>]
                 /\ ~Stored(table, k) => d.ret = TRUE

\* C26: two calls of he4_get for a stored key, one after the other, both
\* return, return the same entry, and leave he4_size as it was.
C26_GetIdempotent ==
    pc = "ready"
        => \A k \in Keys :
              Stored(table, k)
                 => \A ub1 \in UBCompare, ub2 \in UBCompare :
                       LET g1 == he4_get(table, k, KeyLen(k), ub1)
                           g2 == he4_get(g1.table, k, KeyLen(k), ub2)
                       IN /\ g1.pc = "ready" /\ g2.pc = "ready"
                          /\ g1.ret = g2.ret
                          /\ he4_size(g1.table) = he4_size(table)
                          /\ he4_size(g2.table) = he4_size(table)

\* C27: he4_new returns NULL, and makes no table, when the capacity asked
\* for is below the minimum (64 unless the build sets it); otherwise,
\* memory permitting, it returns a table of that capacity whose slots are
\* all empty, whose free is the capacity (he4_size 0) and whose max_touch
\* is 0.
C27_NewTable ==
    /\ pc = "ready"
         => \A minimum \in {HE4_MINIMUM_SIZE, DefaultMinimumSize} :
            \A entries \in 0..(minimum + 1), alloc_ok \in BOOLEAN :
               LET r == he4_new_on(table, entries, minimum, alloc_ok)
               IN /\ r.pc = "ready" /\ r.calls = NoCalls
                  /\ entries < minimum => (r.ret = NULL /\ r.table = table)
                  /\ (entries >= minimum /\ alloc_ok)
                        => /\ r.ret = NewTable
                           /\ r.table.capacity = entries
                           /\ DOMAIN r.table.maps = 0..(entries - 1)
                           /\ \A i \in Slots(r.table) : is_empty(r.table, i)
                           /\ r.table.free = entries
                           /\ he4_size(r.table) = 0
                           /\ r.table.max_touch = 0
    /\ (last.op = "he4_new" /\ last.ret = NewTable)
         => /\ table.capacity >= HE4_MINIMUM_SIZE
            /\ \A i \in Slots(table) : is_empty(table, i)
            /\ table.free = table.capacity
            /\ table.max_touch = 0

\* C27 witness: he4_new has just returned a table of the smallest capacity
\* it accepts to a caller who had stored a key in another table.
C27_Witness ==
    /\ pc = "ready" /\ last.op = "he4_new" /\ last.ret = NewTable
    /\ table.capacity = HE4_MINIMUM_SIZE
    /\ OccupiedSlots(table) = {}
    /\ inserted = {}

\* C28: he4_size, he4_capacity and he4_max_touch called with a NULL table
\* return 0 and do not fault.
C28_NullTableSafe ==
    pc = "ready"
        => /\ he4_size_on(NULL, table).pc = "ready"
           /\ he4_size_on(NULL, table).ret = 0
           /\ he4_capacity(NULL, table).pc = "ready"
           /\ he4_capacity(NULL, table).ret = 0
           /\ \A nullread \in NullReads :
                 /\ he4_max_touch(NULL, table, nullread).pc = "ready"
                 /\ he4_max_touch(NULL, table, nullread).ret = 0

\* C29: the capacity he4_best_capacity returns for a byte budget fits in
\* the budget: the size of the table structure plus that many slots is not
\* more than the budget.
C29_BestCapacityFits ==
    last.op = "best_capacity"
        => SizeofHE4 + last.ret * SizeofMap <= last.key

\* The probe of he4_get and he4_find for key k in table t.
GetProbe(t, k, ub) ==
    get_probe(t, k, KeyLen(k), Hash(k), ub, Hash(k) % t.capacity,
              Hash(k) % t.capacity, FALSE, 0, 0)

\* The probe for k matches at an occupied slot after it passed a deleted
\* slot.
MatchesPastDeleted(t, k, ub) ==
    LET p == GetProbe(t, k, ub)
    IN p.kind = "match" /\ p.lazy /\ is_occupied(t, p.index)

\* What he4_get and he4_find do when the probe for k matches at slot i
\* past a deleted slot: d is the first deleted slot of the probe path, the
\* cell of slot i is at slot d with a new touch index, he4_get returns the
\* entry and he4_find the entry field of slot d, and slot i is left in the
\* state old (is_empty or is_deleted).
LazyRelocation(t, k, ub, old(_, _)) ==
    LET p == GetProbe(t, k, ub)
        i == p.index
        d == p.lazy_index
        g == he4_get(t, k, KeyLen(k), ub)
        f == he4_find(t, k, KeyLen(k), ub)
    IN /\ is_deleted(t, d)
       /\ d \in Before(t, k, i)
       /\ \A j \in Before(t, k, d) : ~is_deleted(t, j)
       /\ g.pc = "ready" /\ g.ret = t.maps[i].entry
       /\ f.pc = "ready" /\ f.ret = d + 1
       /\ f.table = g.table
       /\ g.table.maps[d] = [t.maps[i] EXCEPT !.touch = t.max_touch + 1]
       /\ g.table.free = t.free
       /\ old(g.table, i)

\* C30 as amended: when he4_get or he4_find matches key k at slot i after
\* passing a deleted slot, the cell is moved to the first deleted slot d of
\* the probe path, the result refers to slot d, and slot i is left deleted
\* (key NULL, key length 1).
C30_LazyRelocation ==
    pc = "ready"
        => \A k \in Keys, ub \in UBCompare :
              MatchesPastDeleted(table, k, ub)
                 => LazyRelocation(table, k, ub, is_deleted)

\* C30 witness: a he4_find has just returned the slot of its key, the slot
\* carries the newest touch index, and a deleted slot lies behind it on the
\* probe path of the key.
C30_Witness ==
    /\ pc = "ready" /\ last.op = "find" /\ last.ret # NULL
    /\ table.maps[last.ret - 1].key # NULL
    /\ table.maps[last.ret - 1].touch = table.max_touch
    /\ \E i \in Slots(table) :
          /\ is_deleted(table, i)
          /\ (last.ret - 1) \in Before(table, last.key, i)

\* C30 as stated: the slot the cell was moved from is left empty (key
\* length 0), not deleted.
C30_OriginalLeftEmpty ==
    pc = "ready"
        => \A k \in Keys, ub \in UBCompare :
              MatchesPastDeleted(table, k, ub)
                 => LazyRelocation(table, k, ub, is_empty)

\* The position of slot i in the probe sequence that starts at the hash
\* stored in slot i.
OwnRank(t, i) == (i - t.maps[i].hash) % t.capacity

\* The slots the probe sequence of the cell in slot i visits before slot i.
OwnPath(t, i) == {j \in Slots(t) : (j - t.maps[i].hash) % t.capacity < OwnRank(t, i)}

\* C31: in every state reached by insert, force_insert, get, find, remove
\* and discard, the walk from (hash mod capacity) of an occupied slot
\* forward, with wrap-around, reaches that slot without crossing an empty
\* slot.
C31_ProbeChainIntact ==
    \A i \in OccupiedSlots(table) : \A j \in OwnPath(table, i) : ~is_empty(table, j)

\* C31 witness: an occupied slot lies behind a deleted slot of its own
\* probe sequence, after a lookup has moved a cell.
C31_Witness ==
    /\ pc = "ready" /\ last.op \in {"get", "find"} /\ last.ret # NULL
    /\ \E i \in OccupiedSlots(table) : \E j \in OwnPath(table, i) : is_deleted(table, j)

\* C32: in every reachable state no two occupied slots hold equal keys
\* (the same hash and the same bytes).
C32_KeysUnique ==
    \A i \in OccupiedSlots(table), j \in OccupiedSlots(table) :
        (/\ table.maps[i].hash = table.maps[j].hash
         /\ he4_compare(table.maps[i].key, table.maps[i].klen,
                        table.maps[j].key, table.maps[j].klen, "ne") = "eq")
           => i = j


\* C33: from the same state and for the same key, he4_find and he4_get end
\* alike and leave the same slots, free and max_touch; they report the key
\* absent (NULL) in the same cases; and the slot he4_find points at holds
\* the entry he4_get returns.
C33_FindLikeGet ==
    pc = "ready"
        => \A k \in Keys, ub \in UBCompare :
              LET g == he4_get(table, k, KeyLen(k), ub)
                  f == he4_find(table, k, KeyLen(k), ub)
              IN /\ f.pc = g.pc
                 /\ f.table = g.table
                 /\ (f.ret = NULL) <=> (g.ret = NULL)
                 /\ f.ret # NULL => g.table.maps[f.ret - 1].entry = g.ret

\* The outcomes of the four operations that issue a touch index, for key k
\* and entry e in table t, each with whether it succeeded: an insert that
\* returned false, a forced insert, a lookup that found the key.
TouchingOutcomes(t, k, e) ==
    LET i == he4_insert(t, k, KeyLen(k), e, "ne")
        o == he4_force_insert(t, k, KeyLen(k), e, "ne")
        g == he4_get(t, k, KeyLen(k), "ne")
        f == he4_find(t, k, KeyLen(k), "ne")
    IN <<[r |-> i, ok |-> i.ret = FALSE], [r |-> o, ok |-> TRUE],
         [r |-> g, ok |-> g.ret # NULL], [r |-> f, ok |-> f.ret # NULL]>>

\* Outcome r of an operation on key k in table t added one to max_touch and
\* left a slot of k with the new max_touch, above every other occupied slot.
Stamped(t, k, r) ==
    /\ r.table.max_touch = t.max_touch + 1
    /\ \E i \in SlotsOf(r.table, k) :
          /\ r.table.maps[i].touch = r.table.max_touch
          /\ \A j \in OccupiedSlots(r.table) \ {i} :
                r.table.maps[j].touch < r.table.maps[i].touch

\* C34: every successful insert, force_insert, get and find adds exactly
\* one to max_touch and stamps the slot it touched with the new max_touch,
\* which is then above the touch index of every other occupied slot; so
\* also for the next such operation.
C34_TouchStamped ==
    pc = "ready"
        => \A k1 \in Keys, k2 \in Keys, e \in Entries : \A op1 \in 1..4, op2 \in 1..4 :
              LET o1 == TouchingOutcomes(table, k1, e)[op1]
                  o2 == TouchingOutcomes(o1.r.table, k2, e)[op2]
              IN (o1.r.pc = "ready" /\ o1.ok)
                    => /\ Stamped(table, k1, o1.r)
                       /\ (o2.r.pc = "ready" /\ o2.ok) => Stamped(o1.r.table, k2, o2.r)

\* C35: in every reachable state the touch index of every occupied slot is
\* at most max_touch, and insert, force_insert, get, find, remove and
\* discard never lower max_touch.
C35_MaxTouchBounds ==
    pc = "ready"
        => /\ \A i \in OccupiedSlots(table) : table.maps[i].touch <= table.max_touch
           /\ \A k \in Keys, e \in Entries : \A op \in 1..6 :
                 ProbingOutcomes(table, k, e)[op].table.max_touch >= table.max_touch

\* C36: in every reachable state every slot is in exactly one of the
\* states empty, deleted and occupied; no slot has a key and key length 0;
\* a slot is open exactly when it is empty or deleted; and a slot that is
\* not occupied holds no entry.
C36_SlotStates ==
    pc = "ready"
        => \A i \in Slots(table) :
              /\ Cardinality({s \in {"empty", "deleted", "occupied"} :
                                \/ s = "empty" /\ is_empty(table, i)
                                \/ s = "deleted" /\ is_deleted(table, i)
                                \/ s = "occupied" /\ is_occupied(table, i)}) = 1
              /\ ~(table.maps[i].key # NULL /\ table.maps[i].klen = 0)
              /\ is_open(table, i) <=> (is_empty(table, i) \/ is_deleted(table, i))
              /\ ~is_occupied(table, i) => table.maps[i].entry = NULL

\* C36 witness: a table a rehash or a trim handed back holds an empty, a
\* deleted and an occupied slot.
C36_Witness ==
    /\ pc = "ready" /\ replaced > 0
    /\ \E i \in Slots(table) : is_empty(table, i)
    /\ \E i \in Slots(table) : is_deleted(table, i)
    /\ \E i \in Slots(table) : is_occupied(table, i)

\* The calls of get, find, remove and discard that must find nothing in t:
\* a NULL key, a key length of 0, or a key no occupied slot holds.
AbsentArgs(t) ==
    {<<NULL, 1>>} \cup {<<k, 0>> : k \in Keys}
        \cup {<<k, KeyLen(k)>> : k \in {x \in Keys : ~Stored(t, x)}}

\* get, find, remove and discard of the key with the comparison outcome ub.
LookupOutcomes(t, key, klen, ub) ==
    <<he4_get(t, key, klen, ub), he4_find(t, key, klen, ub),
      he4_remove(t, key, klen), he4_discard(t, key, klen)>>

\* C37: in every reachable state, get, find, remove and discard of a key
\* that is not stored, of a NULL key or with key length 0 leave every slot,
\* free and max_touch as they were and call no destructor.
C37_AbsentKeyNoChange ==
    pc = "ready"
        => \A a \in AbsentArgs(table), ub \in UBCompare : \A op \in 1..4 :
              LET r == LookupOutcomes(table, a[1], a[2], ub)[op]
              IN r.table = table /\ r.calls = NoCalls

\* The key objects and the entry objects the occupied slots of t hold.
KeysIn(t) == {t.maps[i].key : i \in OccupiedSlots(t)}

EntriesIn(t) == {t.maps[i].entry : i \in OccupiedSlots(t)}

\* Every key object and every entry object of t is held by one slot only:
\* the table is the single owner of each.
SingleOwner(t) ==
    \A i \in OccupiedSlots(t), j \in OccupiedSlots(t) :
        i # j => /\ t.maps[i].key # t.maps[j].key
                 /\ t.maps[i].entry # t.maps[j].entry

\* The objects handed to a destructor in the call sequence s.
Destroyed(s) == {s[n] : n \in DOMAIN s}

Once(s) == \A m \in DOMAIN s, n \in DOMAIN s : s[m] = s[n] => m = n

\* The outcome r destroyed no object twice and none the table still holds.
DestroyedRight(r) ==
    /\ Once(r.calls.dk) /\ Once(r.calls.de)
    /\ Destroyed(r.calls.dk) \cap KeysIn(r.table) = {}
    /\ Destroyed(r.calls.de) \cap EntriesIn(r.table) = {}

\* C38: in every reachable state whose key and entry objects are each held
\* by one slot, insert and force_insert of a new key object and a new
\* entry object, get, find, remove and discard destroy no object twice and
\* none that is still in an occupied slot, remove does not destroy the
\* entry it returns, and a rehash that returns calls no destructor.
C38_DestructorsOnce ==
    (pc = "ready" /\ SingleOwner(table))
        => /\ \A k \in Keys, e \in Entries : \A op \in 1..6 :
                 LET r == ProbingOutcomes(table, k, e)[op]
                 IN (op \in {1, 2} => k \notin KeysIn(table) /\ e \notin EntriesIn(table))
                       => /\ DestroyedRight(r)
                          /\ op = 5 => r.ret \notin Destroyed(r.calls.de)
           /\ \A newsize \in NewSizes, n \in NullHashes, ub \in UBCompare :
                 LET r == he4_rehash(table, newsize, TRUE, n, ub)
                 IN r.pc = "ready" => r.calls = NoCalls

\* C39: in every reachable state and for every threshold, the search of
\* he4_trim for the slot to move an entry to stays inside the slots
\* 0..capacity-1: he4_trim never reads maps at an index past the end.
C39_TrimSearchInside ==
    pc = "ready" => \A f \in TrimFloors : he4_trim(table, f, "fault").pc # "fault"

\* C40: in every reachable state, for every capacity and every threshold
\* f, the table he4_trim_and_rehash returns has a max_touch that is not
\* above the old one, that is the old one minus f when f does not exceed
\* it, and that no touch index of an occupied slot exceeds.
C40_TrimmedMaxTouch ==
    pc = "ready"
        => \A newsize \in NewSizes, f \in TrimFloors, n \in NullHashes, ub \in UBCompare :
              LET r == he4_trim_and_rehash(table, newsize, f, TRUE, n, ub)
              IN (r.pc = "ready" /\ r.ret = NewTable)
                    => /\ r.table.max_touch <= table.max_touch
                       /\ f <= table.max_touch => r.table.max_touch = table.max_touch - f
                       /\ \A i \in OccupiedSlots(r.table) :
                             r.table.maps[i].touch <= r.table.max_touch

====
